---- MODULE Spec2Model ----
(***************************************************************************)
(* A state-machine model of src/createAndRunRNN_Model.py: the windowed     *)
(* DataReader, the RNN core (forward, backward, loss, update_model,        *)
(* sample, predict) and the RNN.train loop.                                *)
(*                                                                         *)
(* Floating point is modelled in fixed point.  Parameters are in units of  *)
(* 1/100, hidden activations in units of 1/10, losses in units of 1/1000.  *)
(* The results of tanh/softmax arithmetic (hidden vectors, raw gradients,  *)
(* drawn sample indices) are over-approximated: they are drawn from small  *)
(* sets.  Everything that is index arithmetic, control flow, clamping or   *)
(* accumulation is computed as the code computes it.                       *)
(***************************************************************************)
EXTENDS Integers, Sequences, FiniteSets, TLC

\* ------------------------------------------------------------------ bounds
MaxData == 5        \* longest corpus
MaxSeq == 2         \* largest seq_length
HiddenSize == 1     \* hidden_size of the RNN
MaxUpdates == 2     \* update_model calls made by a direct caller
MaxSample == 1      \* largest n passed to sample / predict
MaxIter == 2        \* cap on iter_num in train

Chars == {"a", "b"}

\* --------------------------------------------------------------- constants
threshold == 10          \* 0.01 in units of 1/1000
ClipBound == 5           \* np.clip(dparam, -5, 5)
LearningRateCenti == 10  \* learning_rate = 0.1, as a step in units of 1/100
DecayMilli == 999        \* smooth_loss * 0.999

VARIABLES
    data,         \* DataReader.data: the corpus, a sequence of characters
    char_to_ix,   \* DataReader.char_to_ix
    seq_length,   \* DataReader.seq_length = RNN.seq_length
    pointer,      \* DataReader.pointer
    params,       \* RNN.U, W, V, b, c
    mems,         \* RNN.mU, mW, mV, mb, mc
    trainPc,      \* position of RNN.train
    iter_num,     \* train's local iter_num
    smooth_loss,  \* train's local smooth_loss, units of 1/1000
    hprev,        \* train's local hprev: [bound, v]
    inputs,       \* the caller's last window: inputs
    targets,      \* the caller's last window: targets
    fwd,          \* the caller's last forward result: [valid, n, hlast]
    grads,        \* the caller's last backward result: [valid, g]
    out,          \* what the last operation did and returned
    count         \* ghost counters: windows read and updates made by train, updates in all

vars == <<data, char_to_ix, seq_length, pointer, params, mems, trainPc, iter_num,
          smooth_loss, hprev, inputs, targets, fwd, grads, out, count>>

readerVars == <<data, char_to_ix, seq_length>>
coreVars == <<params, mems>>
trainVars == <<trainPc, iter_num, smooth_loss, hprev>>

\* ----------------------------------------------------------------- helpers
Min(x, y) == IF x < y THEN x ELSE y
Max(x, y) == IF x > y THEN x ELSE y

\* Python's s[lo:hi] for 0 <= lo <= hi, on a 1-based sequence.
PySlice(s, lo, hi) ==
    LET a == Min(lo, Len(s))
        z == Min(hi, Len(s))
    IN  [i \in 1..Max(0, z - a) |-> s[a + i]]

CharsOf(s) == {s[i] : i \in 1..Len(s)}

\* The corpora: every non-empty string over Chars up to MaxData characters.
Corpora == UNION {[1..n -> Chars] : n \in 1..MaxData}

\* enumerate(list(set(data))): a bijection onto 0..vocab_size-1, in any order.
Mappings(s) ==
    {m \in [CharsOf(s) -> 0..(Cardinality(CharsOf(s)) - 1)] :
        \A x, y \in CharsOf(s) : x # y => m[x] # m[y]}

data_size == Len(data)
vocab_size == Cardinality(CharsOf(data))
Vocab == 0..(vocab_size - 1)

\* ------------------------------------------------------------------ reader
\* The wrap test of next_batch, at the advanced pointer p.
wrap_late(p) == p + seq_length > data_size
wrap_strict(p) == p + seq_length + 1 > data_size
wrap(p) == p + seq_length + 1 >= data_size

Encode(s) == [i \in 1..Len(s) |-> char_to_ix[s[i]]]

\* DataReader.next_batch: the window returned and the pointer left behind.
next_batch ==
    LET input_start == pointer
        input_end == pointer + seq_length
        advanced == pointer + seq_length
    IN  [inputs |-> Encode(PySlice(data, input_start, input_end)),
         targets |-> Encode(PySlice(data, input_start + 1, input_end + 1)),
         pointer |-> IF wrap(advanced) THEN 0 ELSE advanced]

just_started == pointer = 0

\* -------------------------------------------------------------------- core
Names == {"U", "W", "V", "b", "c"}

Rows(name) == IF name \in {"U", "W", "b"} THEN HiddenSize ELSE vocab_size
Cols(name) ==
    CASE name = "U" -> vocab_size
      [] name \in {"W", "V"} -> HiddenSize
      [] OTHER -> 1
Index(name) == (1..Rows(name)) \X (1..Cols(name))

Fill(name, x) == [e \in Index(name) |-> x]
zeros_like == [name \in Names |-> Fill(name, 0)]

\* RNN.__init__: U, V, W drawn at random, b and c zero.
InitFills == {-3, 4}
InitParams(x) ==
    [name \in Names |-> IF name \in {"b", "c"} THEN Fill(name, 0) ELSE Fill(name, x)]

ZeroH == [i \in 1..HiddenSize |-> 0]
\* tanh outputs, in tenths: what a forward pass may leave as its last hidden state.
HiddenSamples == {[i \in 1..HiddenSize |-> 5], [i \in 1..HiddenSize |-> -9]}

NoFwd == [valid |-> FALSE, n |-> 0, hlast |-> ZeroH]
NoGrads == [valid |-> FALSE, g |-> zeros_like]
Unbound == [bound |-> FALSE, v |-> ZeroH]
Bound(h) == [bound |-> TRUE, v |-> h]

\* RNN.forward: hs[-1] is a copy of h0, then one step per element of ins, the
\* last of them leaving h; hlast is the entry of hs with the largest key.
forward(ins, h0, h) ==
    [valid |-> TRUE, n |-> Len(ins), hlast |-> IF Len(ins) = 0 THEN h0 ELSE h]

\* np.clip(x, -5, 5)
clip(x) == Max(-ClipBound, Min(ClipBound, x))

\* The gradients before clipping, over-approximated by a few sample tensors.
GradSeeds == {-7, 3}
RawGrads(s) == [name \in Names |-> [e \in Index(name) |-> s * (e[1] + e[2] - 1)]]

\* RNN.backward: what the loop over reversed(range(seq_length)) raises, if anything.
backward_exc(f, tgts) ==
    IF f.n < seq_length THEN "KeyError"
    ELSE IF Len(tgts) < seq_length THEN "IndexError"
    ELSE "none"

\* RNN.backward: the gradients returned, each clipped.
backward(raw) == [name \in Names |-> [e \in Index(name) |-> clip(raw[name][e])]]

\* RNN.loss(ps, targets): ps - targets, by the Python types of its arguments.
\* forward returns ps as a dict and next_batch returns targets as a list.
loss_exc(psType, targetsType) == IF psType = "dict" THEN "TypeError" ELSE "none"
LossSamples == {0, 250}

ISqrt(x) == CHOOSE r \in 0..x : r * r <= x /\ x < (r + 1) * (r + 1)

\* learning_rate * dparam / sqrt(mem + 1e-8), in units of 1/100.
AdagradStep(d, mem) ==
    IF d = 0 THEN 0
    ELSE IF d > 0 THEN (LearningRateCenti * d) \div ISqrt(mem)
    ELSE -((LearningRateCenti * (-d)) \div ISqrt(mem))

\* RNN.update_model: the accumulators and the parameters after the update.
update_mems_replace(m, g) ==
    [name \in Names |-> [e \in Index(name) |-> g[name][e] * g[name][e]]]
update_mems(m, g) ==
    [name \in Names |-> [e \in Index(name) |-> m[name][e] + g[name][e] * g[name][e]]]
update_params(p, m, g) ==
    [name \in Names |->
        [e \in Index(name) |-> p[name][e] - AdagradStep(g[name][e], update_mems(m, g)[name][e])]]

\* RNN.sample: n indices, each drawn from a distribution with full support.
SampleResults(n) == [1..n -> Vocab]

\* -np.log(1.0 / vocab_size), in units of 1/1000.
LnMilli(v) == CASE v = 1 -> 0 [] v = 2 -> 693 [] v = 3 -> 1099 [] OTHER -> 1386

ix_to_char == [i \in Vocab |-> CHOOSE ch \in CharsOf(data) : char_to_ix[ch] = i]
Decode(ixes) == [i \in 1..Len(ixes) |-> ix_to_char[ixes[i]]]

\* RNN.predict: the seed texts a caller may pass.
Seeds == {<<>>, <<"a">>, <<"a", "b">>, <<"b", "a", "b">>}

\* RNN.predict: the input vectors given to the recurrence, each as the set of its
\* non-zero entries.  x is filled from every symbol of start before the loop; each
\* of the n steps then feeds x and replaces it by the one-hot of the index drawn.
predict_fed(start, drawn) ==
    [t \in 1..Len(drawn) |->
        IF t = 1 THEN {char_to_ix[start[i]] : i \in 1..Len(start)} ELSE {drawn[t - 1]}]

NoOut == [op |-> "init", exc |-> "none", p |-> 0, ixes |-> <<>>, fed |-> <<>>,
          start |-> <<>>, txt |-> <<>>]
Did(op) == [NoOut EXCEPT !.op = op]
Raised(op, e) == [NoOut EXCEPT !.op = op, !.exc = e]

\* -------------------------------------------------------------------- init
InitWith(corpora, fills) ==
    /\ data \in corpora
    /\ char_to_ix \in Mappings(data)
    /\ seq_length \in 1..MaxSeq
    /\ pointer = 0
    /\ \E x \in fills : params = InitParams(x)
    /\ mems = zeros_like
    /\ trainPc = "idle"
    /\ iter_num = 0
    /\ smooth_loss = 0
    /\ hprev = Unbound
    /\ inputs = <<>>
    /\ targets = <<>>
    /\ fwd = NoFwd
    /\ grads = NoGrads
    /\ out = NoOut
    /\ count = [windows |-> 0, trainUpdates |-> 0, updates |-> 0]

Init == InitWith(Corpora, InitFills)

Idle == trainPc = "idle"

\* ------------------------------------------------- calls made by a caller
\* data_reader.next_batch()
NextBatch ==
    /\ Idle
    /\ inputs' = next_batch.inputs
    /\ targets' = next_batch.targets
    /\ pointer' = next_batch.pointer
    /\ out' = [Did("next_batch") EXCEPT !.p = pointer]
    /\ UNCHANGED <<readerVars, coreVars, trainVars, fwd, grads, count>>

\* rnn.forward(inputs, h0)
CallForward ==
    /\ Idle
    /\ \E h0 \in {ZeroH} \cup {fwd.hlast}, h \in HiddenSamples :
          fwd' = forward(inputs, h0, h)
    /\ out' = Did("forward")
    /\ UNCHANGED <<readerVars, pointer, coreVars, trainVars, inputs, targets, grads, count>>

\* rnn.backward(xs, hs, ps, targets), on the last forward result
CallBackward_aliased ==
    /\ Idle
    /\ fwd.valid
    /\ \E s \in GradSeeds :
          /\ grads' = [valid |-> TRUE, g |-> backward(RawGrads(s))]
          /\ params' = grads'.g
    /\ out' = Did("backward")
    /\ UNCHANGED <<readerVars, pointer, mems, trainVars, inputs, targets, fwd, count>>
CallBackward ==
    /\ Idle
    /\ fwd.valid
    /\ IF backward_exc(fwd, targets) = "none"
       THEN /\ \E s \in GradSeeds : grads' = [valid |-> TRUE, g |-> backward(RawGrads(s))]
            /\ out' = Did("backward")
       ELSE /\ out' = Raised("backward", backward_exc(fwd, targets))
            /\ UNCHANGED grads
    /\ UNCHANGED <<readerVars, pointer, coreVars, trainVars, inputs, targets, fwd, count>>

\* rnn.loss(ps, targets), on arguments of either type
CallLoss ==
    /\ Idle
    /\ \E psType \in {"dict", "ndarray"}, targetsType \in {"list", "ndarray"} :
          out' = Raised("loss", loss_exc(psType, targetsType))
    /\ UNCHANGED <<readerVars, pointer, coreVars, trainVars, inputs, targets, fwd, grads, count>>

\* rnn.update_model(dU, dW, dV, db, dc), on the last backward result
CallUpdateModel ==
    /\ Idle
    /\ grads.valid
    /\ count.updates < MaxUpdates
    /\ mems' = update_mems(mems, grads.g)
    /\ params' = update_params(params, mems, grads.g)
    /\ count' = [count EXCEPT !.updates = @ + 1]
    /\ out' = Did("update_model")
    /\ UNCHANGED <<readerVars, pointer, trainVars, inputs, targets, fwd, grads>>

\* rnn.sample(h, seed_ix, n)
CallSample ==
    /\ Idle
    /\ \E seed_ix \in Vocab, n \in 0..MaxSample : \E ixes \in SampleResults(n) :
          out' = [Did("sample") EXCEPT !.ixes = ixes]
    /\ UNCHANGED <<readerVars, pointer, coreVars, trainVars, inputs, targets, fwd, grads, count>>

\* rnn.predict(data_reader, start, n)
CallPredict ==
    /\ Idle
    /\ \E start \in Seeds, n \in 0..MaxSample :
          IF CharsOf(start) \subseteq CharsOf(data)
          THEN \E drawn \in SampleResults(n) :
                  out' = [Did("predict") EXCEPT
                             !.start = start,
                             !.fed = predict_fed(start, drawn),
                             !.ixes = Encode(start) \o drawn,
                             !.txt = Decode(Encode(start) \o drawn)]
          ELSE out' = [Raised("predict", "KeyError") EXCEPT !.start = start]
    /\ UNCHANGED <<readerVars, pointer, coreVars, trainVars, inputs, targets, fwd, grads, count>>

\* ------------------------------------------------------------------- train
\* rnn.train(data_reader): lines 135-137
TrainCall ==
    /\ Idle
    /\ trainPc' = "while"
    /\ iter_num' = 0
    /\ smooth_loss' = LnMilli(vocab_size) * seq_length
    /\ hprev' = Unbound
    /\ out' = Did("train")
    /\ UNCHANGED <<readerVars, pointer, coreVars, inputs, targets, fwd, grads, count>>

\* line 138: while (smooth_loss > threshold)
TrainWhile ==
    /\ trainPc = "while"
    /\ iter_num <= MaxIter
    /\ trainPc' = IF smooth_loss > threshold THEN "just_started" ELSE "returned"
    /\ out' = Did("while")
    /\ UNCHANGED <<readerVars, pointer, coreVars, iter_num, smooth_loss, hprev,
                   inputs, targets, fwd, grads, count>>

\* lines 139-140
TrainJustStarted ==
    /\ trainPc = "just_started"
    /\ hprev' = IF just_started THEN Bound(ZeroH) ELSE hprev
    /\ trainPc' = "next_batch"
    /\ out' = Did("just_started")
    /\ UNCHANGED <<readerVars, pointer, coreVars, iter_num, smooth_loss,
                   inputs, targets, fwd, grads, count>>

\* line 141
TrainNextBatch ==
    /\ trainPc = "next_batch"
    /\ inputs' = next_batch.inputs
    /\ targets' = next_batch.targets
    /\ pointer' = next_batch.pointer
    /\ count' = [count EXCEPT !.windows = @ + 1]
    /\ trainPc' = "forward"
    /\ out' = [Did("next_batch") EXCEPT !.p = pointer]
    /\ UNCHANGED <<readerVars, coreVars, iter_num, smooth_loss, hprev, fwd, grads>>

\* line 142: reading an unassigned hprev raises UnboundLocalError
TrainForward ==
    /\ trainPc = "forward"
    /\ IF hprev.bound
       THEN /\ \E h \in HiddenSamples : fwd' = forward(inputs, hprev.v, h)
            /\ trainPc' = "backward"
            /\ out' = Did("forward")
       ELSE /\ trainPc' = "raised"
            /\ out' = Raised("train", "UnboundLocalError")
            /\ UNCHANGED fwd
    /\ UNCHANGED <<readerVars, pointer, coreVars, iter_num, smooth_loss, hprev,
                   inputs, targets, grads, count>>

\* line 143
TrainBackward ==
    /\ trainPc = "backward"
    /\ IF backward_exc(fwd, targets) = "none"
       THEN /\ \E s \in GradSeeds : grads' = [valid |-> TRUE, g |-> backward(RawGrads(s))]
            /\ trainPc' = "loss"
            /\ out' = Did("backward")
       ELSE /\ trainPc' = "raised"
            /\ out' = Raised("train", backward_exc(fwd, targets))
            /\ UNCHANGED grads
    /\ UNCHANGED <<readerVars, pointer, coreVars, iter_num, smooth_loss, hprev,
                   inputs, targets, fwd, count>>

\* lines 144-152: loss, update_model, the smoothed loss, the hidden-state carry,
\* the periodic sample and iter_num.  loss is given forward's dict and
\* next_batch's list; when it raises, nothing after line 144 runs.
TrainRest ==
    /\ trainPc = "loss"
    /\ IF loss_exc("dict", "list") = "none"
       THEN /\ mems' = update_mems(mems, grads.g)
            /\ params' = update_params(params, mems, grads.g)
            /\ \E l \in LossSamples :
                  smooth_loss' = (smooth_loss * DecayMilli + l * (1000 - DecayMilli)) \div 1000
            /\ hprev' = Bound(fwd.hlast)
            /\ IF iter_num % 500 = 0
               THEN \E ixes \in SampleResults(MaxSample) :
                       out' = [Did("sample") EXCEPT !.ixes = ixes]
               ELSE out' = Did("update_model")
            /\ iter_num' = iter_num + 1
            /\ count' = [count EXCEPT !.trainUpdates = @ + 1, !.updates = @ + 1]
            /\ trainPc' = "while"
       ELSE /\ trainPc' = "raised"
            /\ out' = Raised("train", loss_exc("dict", "list"))
            /\ UNCHANGED <<coreVars, iter_num, smooth_loss, hprev, count>>
    /\ UNCHANGED <<readerVars, pointer, inputs, targets, fwd, grads>>

\* ---------------------------------------------------------- specifications
Next ==
    \/ NextBatch
    \/ CallForward
    \/ CallBackward
    \/ CallLoss
    \/ CallUpdateModel
    \/ CallSample
    \/ CallPredict
    \/ TrainCall
    \/ TrainWhile
    \/ TrainJustStarted
    \/ TrainNextBatch
    \/ TrainForward
    \/ TrainBackward
    \/ TrainRest

Spec == Init /\ [][Next]_vars

\* The reader alone.
NextReader == NextBatch
SpecReader == Init /\ [][NextReader]_vars

\* A caller that may read windows, then calls train.
NextTrain ==
    \/ NextBatch
    \/ TrainCall
    \/ TrainWhile
    \/ TrainJustStarted
    \/ TrainNextBatch
    \/ TrainForward
    \/ TrainBackward
    \/ TrainRest
SpecTrain == Init /\ [][NextTrain]_vars

\* A caller that drives the core's methods itself, over two corpora of the
\* greatest length: one of a single symbol, one alternating two symbols.
CoreCorpora ==
    {[i \in 1..MaxData |-> "a"], [i \in 1..MaxData |-> IF i % 2 = 1 THEN "a" ELSE "b"]}
InitCore == InitWith(CoreCorpora, {4})
NextCore ==
    \/ NextBatch
    \/ CallForward
    \/ CallBackward
    \/ CallLoss
    \/ CallUpdateModel
    \/ CallSample
    \/ CallPredict
SpecCore == InitCore /\ [][NextCore]_vars

\* ------------------------------------------------------------------ claims
L == seq_length
Returned == out.op = "next_batch" /\ out.exc = "none"

\* C1: on a corpus of at least seq_length + 1 symbols, every next_batch call
\* returns exactly seq_length inputs and seq_length targets, inputs[i] being
\* corpus[p + i] and targets[i] corpus[p + i + 1] for the cursor p of the call.
C1_FullShiftedWindows ==
    (data_size >= L + 1 /\ Returned) =>
        /\ Len(inputs) = L
        /\ Len(targets) = L
        /\ \A i \in 0..(L - 1) :
              /\ inputs[i + 1] = char_to_ix[data[out.p + i + 1]]
              /\ targets[i + 1] = char_to_ix[data[out.p + i + 2]]

\* A window was returned at a cursor past the start, over both symbols.
C1_Witness ==
    /\ Returned
    /\ out.p > 0
    /\ data_size >= L + 1
    /\ Len(inputs) = L
    /\ inputs # targets

\* C2, as claimed: next_batch resets the cursor to 0 exactly when fewer than
\* seq_length + 1 symbols remain from the advanced cursor to the end.
C2_WrapsOnlyWhenNoWindowFits ==
    Returned => ((pointer = 0) <=> (data_size - (out.p + L) < L + 1))

\* C2, amended: next_batch resets the cursor to 0 exactly when at most
\* seq_length + 1 symbols remain from the advanced cursor to the end, and
\* otherwise leaves the cursor at the advanced position.
C2_WrapsUnlessSpareSymbol ==
    Returned => pointer = IF data_size - (out.p + L) <= L + 1 THEN 0 ELSE out.p + L

\* Exactly one full window was left at the advanced cursor, and the cursor was reset.
C2_Witness ==
    /\ Returned
    /\ data_size - (out.p + L) = L + 1
    /\ pointer = 0

\* C6: on a corpus shorter than seq_length + 1 the reader returns no window
\* with fewer than seq_length inputs or targets.
C6_NoShortWindow ==
    data_size < L + 1 => ~(Returned /\ (Len(inputs) < L \/ Len(targets) < L))

\* A run of train on a reader that meets the reader's precondition and whose
\* hidden state was assigned: what raises in it is not the short window nor
\* the unassigned hprev.
SoundRun == data_size >= L + 1 /\ (trainPc = "raised" => hprev.bound)
BetweenSteps == trainPc \in {"while", "returned", "raised"}

\* C3: every iteration of train that obtains a window runs through
\* update_model, so between iterations and at the end of train the parameters
\* have been updated once per window obtained.
C3_OneUpdatePerWindow ==
    (SoundRun /\ BetweenSteps) => count.trainUpdates = count.windows

\* C4: the hidden state given to forward in train is the zero vector when the
\* cursor was at 0 at the start of the step, and otherwise the last hidden
\* state of the previous forward pass.
C4_HiddenStateAtForward ==
    trainPc = "forward" =>
        hprev = IF out.p = 0 THEN Bound(ZeroH) ELSE Bound(fwd.hlast)

\* C5: the first forward pass of train is given the zero vector, wherever the
\* reader's cursor stood when train was called.
C5_FirstForwardFromZero ==
    (trainPc = "forward" /\ iter_num = 0) => hprev = Bound(ZeroH)

\* C7: train has ended only with smooth_loss at or below the threshold, and is
\* inside a training step only with smooth_loss above it.
C7_EndsOnlyBelowThreshold ==
    SoundRun =>
        /\ trainPc \in {"returned", "raised"} => smooth_loss <= threshold
        /\ trainPc \in {"just_started", "next_batch", "forward", "backward", "loss"} =>
              smooth_loss > threshold

\* C8: only update_model changes the parameters and the accumulators: every
\* other operation leaves both unchanged, and sample also leaves the carried
\* hidden state, the smoothed loss and the reader's cursor unchanged.
C8_OnlyUpdateModelWrites ==
    [][/\ out'.op # "update_model" => UNCHANGED <<params, mems>>
       /\ out'.op = "sample" => UNCHANGED <<hprev, smooth_loss, pointer>>]_vars

\* sample drew an index from a model whose parameters had been updated.
C8_Witness ==
    /\ out.op = "sample"
    /\ Len(out.ixes) > 0
    /\ count.updates > 0
    /\ pointer > 0
    /\ \E x \in InitFills : params # InitParams(x)

\* C9: every input vector predict gives to the recurrence has exactly one
\* non-zero entry, for every non-empty seed text.
C9_PredictFeedsOneHot ==
    (out.op = "predict" /\ out.exc = "none" /\ out.start # <<>>) =>
        \A t \in 1..Len(out.fed) : Cardinality(out.fed[t]) = 1

\* C10: every accumulator element is non-negative and never decreases, and an
\* update_model call raises it by exactly the square of the gradient element,
\* which is at most ClipBound squared.
C10_AccumulatorsOnlyGrow ==
    [][\A name \in Names : \A e \in Index(name) :
          /\ mems[name][e] >= 0
          /\ mems'[name][e] >= mems[name][e]
          /\ out'.op = "update_model" =>
                /\ mems'[name][e] = mems[name][e] + grads.g[name][e] * grads.g[name][e]
                /\ grads.g[name][e] * grads.g[name][e] <= ClipBound * ClipBound]_vars

\* Two updates with a gradient clamped at the bound have accumulated in one
\* element of an accumulator.
C10_Witness ==
    /\ out.op = "update_model"
    /\ count.updates >= 2
    /\ \E name \in Names : \E e \in Index(name) : mems[name][e] = 2 * ClipBound * ClipBound
====
